---------------------------- MODULE Spec2Model ----------------------------
(***************************************************************************)
(* A model of wkb_raster.py: read_wkb_raster (the WKB raster decoder) and  *)
(* write_wkb_raster (the encoder).  A byte is a number in 0..255, a stream *)
(* is a sequence of bytes read front to back through a file-like object.   *)
(*                                                                         *)
(* Values produced by struct.unpack are kept exact:                        *)
(*   - an integer v is [kind |-> "int", val |-> <<q, r>>] with             *)
(*     v = q * 65536 + r and r in 0..65535 (an unsigned 32-bit value does  *)
(*     not fit a model integer, its two halves do);                        *)
(*   - a bool is [kind |-> "bool", val |-> <<0>>] or <<1>>;                *)
(*   - a float is [kind |-> "float", val |-> its IEEE-754 bytes, most      *)
(*     significant byte first]: two floats are the same value exactly when *)
(*     these bytes agree (NaN and the sign of zero aside).                 *)
(***************************************************************************)
EXTENDS Integers, Sequences, FiniteSets, TLC

VARIABLES
    byteorder,  \* sys.byteorder of the machine running the code
    mode,       \* "decode": read_wkb_raster on a given stream;
                \* "roundtrip": write_wkb_raster, then read_wkb_raster on its result
    stream,     \* the bytes behind the file-like object wkb
    pos,        \* the position of wkb
    pc,         \* where read_wkb_raster is
    exc,        \* the exception read_wkb_raster raised, "none" while it has not
    endian,     \* the local endian: "<", ">", or "int" while it still holds the marker
    marker,     \* the value unpacked from the first byte (signed)
    ret,        \* the dict under construction, returned when pc = "done"
    nbands,     \* the local bands (the header's band count)
    i,          \* the number of completed iterations of the band loop
    band,       \* the band dict of the current iteration
    pixtype,    \* the local pixtype of the current iteration
    data,       \* the path bytes collected so far by the offline loop
    spins,      \* the number of wkb.read(1) calls of the path loop that met end of stream
    src,        \* what rasterio reports for the file given to write_wkb_raster
    wpc,        \* where write_wkb_raster is
    wexc,       \* the exception write_wkb_raster raised, "none" while it has not
    wheader,    \* the local header of write_wkb_raster
    wbands,     \* the local bands of write_wkb_raster (one byte string per band)
    wi,         \* the band index i of the writer's loop
    wkbout,     \* the bytes write_wkb_raster returned
    given       \* how the input was made: its family and the stream before it was cut

vars == <<byteorder, mode, stream, pos, pc, exc, endian, marker, ret, nbands, i,
          band, pixtype, data, spins, src, wpc, wexc, wheader, wbands, wi, wkbout,
          given>>

rvars == <<stream, pos, pc, exc, endian, marker, ret, nbands, i, band, pixtype,
           data, spins>>

wvars == <<src, wpc, wexc, wheader, wbands, wi, wkbout>>

(***************************************************************************)
(* Bounds of the model.                                                    *)
(***************************************************************************)
MaxBands == 2        \* band records in a generated stream, bands of a source file
MaxSide == 2         \* largest width and height
MaxPixels == 2       \* largest width * height
MaxSpin == 3         \* reads at end of stream followed in the path loop

(***************************************************************************)
(* Bytes and sequences.                                                    *)
(***************************************************************************)
Byte == 0..255

Min(a, b) == IF a < b THEN a ELSE b

Reverse(s) == [k \in 1..Len(s) |-> s[Len(s) + 1 - k]]

RECURSIVE Concat(_)
Concat(ss) == IF ss = <<>> THEN <<>> ELSE Head(ss) \o Concat(Tail(ss))

\* bit k of the Python integer x (negative x in two's complement)
Bit(x, k) == (x \div (2 ^ k)) % 2

\* x & m for a mask m in 0..255, as Python computes it for any integer x
BitAnd(x, m) ==
    LET b(k) == (2 ^ k) * Bit(x, k) * Bit(m, k)
    IN  b(0) + b(1) + b(2) + b(3) + b(4) + b(5) + b(6) + b(7)

(***************************************************************************)
(* wkb.read(n) of a file-like object at position p: at most n bytes, fewer *)
(* at the end of the stream; the position moves by what was read.          *)
(***************************************************************************)
read(s, p, n) == SubSeq(s, p + 1, Min(p + n, Len(s)))

(***************************************************************************)
(* struct: the formats the module uses.                                    *)
(***************************************************************************)
calcsize(fmt) ==
    CASE fmt \in {"?", "b", "B"} -> 1
      [] fmt \in {"h", "H"} -> 2
      [] fmt \in {"i", "I", "f"} -> 4
      [] fmt = "d" -> 8

PyInt(v) == [kind |-> "int", val |-> <<v \div 65536, v % 65536>>]

IntOf(x) == x.val[1] * 65536 + x.val[2]

\* the value of the bytes be (most significant first) under format fmt
valueOf(fmt, be) ==
    CASE fmt = "?" -> [kind |-> "bool", val |-> <<IF be[1] = 0 THEN 0 ELSE 1>>]
      [] fmt = "B" -> PyInt(be[1])
      [] fmt = "b" -> PyInt(IF be[1] >= 128 THEN be[1] - 256 ELSE be[1])
      [] fmt = "H" -> PyInt(be[1] * 256 + be[2])
      [] fmt = "h" -> PyInt(IF be[1] >= 128 THEN be[1] * 256 + be[2] - 65536
                                            ELSE be[1] * 256 + be[2])
      [] fmt = "I" -> [kind |-> "int", val |-> <<be[1] * 256 + be[2], be[3] * 256 + be[4]>>]
      [] fmt = "i" -> [kind |-> "int",
                       val |-> <<IF be[1] >= 128 THEN be[1] * 256 + be[2] - 65536
                                                 ELSE be[1] * 256 + be[2],
                                 be[3] * 256 + be[4]>>]
      [] fmt \in {"f", "d"} -> [kind |-> "float", val |-> be]

\* unpack(e + fmt, bytes) for one value; the caller has checked the length
unpack(e, fmt, bytes) == valueOf(fmt, IF e = "<" THEN Reverse(bytes) ELSE bytes)

\* struct.error: the buffer is not of the size the format requires
unpackFails(fmt, bytes) == Len(bytes) # calcsize(fmt)

(***************************************************************************)
(* The pixel type tables of the band loop.                                 *)
(***************************************************************************)
fmts == <<"?", "B", "B", "b", "B", "h", "H", "i", "I", "f", "d">>

dtypes == <<"b1", "u1", "u1", "i1", "u1", "i2", "u2", "i4", "u4", "f4", "f8">>

sizes == <<1, 1, 1, 1, 1, 2, 2, 4, 4, 4, 8>>

\* a Python list index: IndexError outside 0..len-1 (non-negative indices)
inTable(t, k) == k >= 0 /\ k < Len(t)

item(t, k) == t[k + 1]

(***************************************************************************)
(* bytes.decode(): strict UTF-8.  The code points of the text, or <<-1>>   *)
(* for UnicodeDecodeError.                                                 *)
(***************************************************************************)
IsCont(b) == b >= 128 /\ b <= 191

RECURSIVE utf8(_)
utf8(bs) ==
    IF bs = <<>> THEN <<>>
    ELSE LET b0 == bs[1]
             n == Len(bs)
             need == CASE b0 < 128 -> 0
                       [] b0 >= 194 /\ b0 <= 223 -> 1
                       [] b0 >= 224 /\ b0 <= 239 -> 2
                       [] b0 >= 240 /\ b0 <= 244 -> 3
                       [] OTHER -> -1
             ok == /\ need >= 0
                   /\ n >= need + 1
                   /\ \A k \in 2..(need + 1) : IsCont(bs[k])
                   /\ (b0 = 224 => bs[2] >= 160)
                   /\ (b0 = 237 => bs[2] <= 159)
                   /\ (b0 = 240 => bs[2] >= 144)
                   /\ (b0 = 244 => bs[2] <= 143)
             cp == CASE need = 0 -> b0
                     [] need = 1 -> (b0 - 192) * 64 + (bs[2] - 128)
                     [] need = 2 -> (b0 - 224) * 4096 + (bs[2] - 128) * 64 + (bs[3] - 128)
                     [] need = 3 -> (b0 - 240) * 262144 + (bs[2] - 128) * 4096
                                    + (bs[3] - 128) * 64 + (bs[4] - 128)
             rest == IF ok THEN utf8(SubSeq(bs, need + 2, n)) ELSE <<-1>>
         IN  IF ~ok \/ rest = <<-1>> THEN <<-1>> ELSE <<cp>> \o rest

decode(bs) == utf8(bs)


(***************************************************************************)
(* struct.unpack of a format of several values.                            *)
(***************************************************************************)
RECURSIVE sizeOf(_)
sizeOf(fs) == IF fs = <<>> THEN 0 ELSE calcsize(Head(fs)) + sizeOf(Tail(fs))

\* the k-th value of unpack(e + fs, bytes); the caller has checked the length
field(e, fs, bytes, k) ==
    LET off == sizeOf(SubSeq(fs, 1, k - 1))
    IN  unpack(e, fs[k], SubSeq(bytes, off + 1, off + calcsize(fs[k])))

\* 'HHddddddIHH', the header format of read_wkb_raster
ReadHeaderFormat == <<"H", "H", "d", "d", "d", "d", "d", "d", "I", "H", "H">>

(***************************************************************************)
(* read_wkb_raster.                                                        *)
(***************************************************************************)
Raise(e) == pc' = "raised" /\ exc' = e

\* a decoder that takes every marker other than 0 for little-endian
resolveGuess(m) == IF m = 0 THEN ">" ELSE "<"

\* if endian == 0: endian = '>'; elif endian == 1: endian = '<'; there is no
\* else: any other marker leaves the integer in endian
resolve(m) == IF m = 0 THEN ">" ELSE IF m = 1 THEN "<" ELSE "int"

\* (endian,) = unpack('<b', wkb.read(1)) and the if/elif that follows
ReadEndian ==
    /\ pc = "endian"
    /\ LET b == read(stream, pos, 1)
       IN  /\ pos' = pos + Len(b)
           /\ IF unpackFails("b", b)
                 THEN /\ Raise("struct.error")
                      /\ UNCHANGED <<endian, marker>>
                 ELSE LET m == IntOf(unpack("<", "b", b))
                      IN  /\ marker' = m
                          /\ endian' = resolve(m)
                          /\ pc' = "header"
                          /\ exc' = exc
    /\ UNCHANGED <<given, byteorder, mode, stream, ret, nbands, i, band, pixtype, data, spins>>
    /\ UNCHANGED wvars

\* unpack(endian + 'HHddddddIHH', wkb.read(60)) and the assignments to ret.
\* The format argument is evaluated first: int + str raises TypeError before
\* wkb.read(60) is called.
ReadHeader ==
    /\ pc = "header"
    /\ IF endian = "int"
          THEN /\ Raise("TypeError")
               /\ UNCHANGED <<pos, ret, nbands, i>>
          ELSE LET b == read(stream, pos, 60)
                   f(k) == field(endian, ReadHeaderFormat, b, k)
               IN  /\ pos' = pos + Len(b)
                   /\ IF Len(b) # sizeOf(ReadHeaderFormat)
                         THEN /\ Raise("struct.error")
                              /\ UNCHANGED <<ret, nbands, i>>
                         ELSE /\ ret' = [version |-> IntOf(f(1)),
                                         scaleX |-> f(3), scaleY |-> f(4),
                                         ipX |-> f(5), ipY |-> f(6),
                                         skewX |-> f(7), skewY |-> f(8),
                                         srid |-> f(9),
                                         width |-> IntOf(f(10)),
                                         height |-> IntOf(f(11)),
                                         bands |-> <<>>]
                              /\ nbands' = IntOf(f(2))
                              /\ i' = 0
                              /\ pc' = "loop"
                              /\ exc' = exc
    /\ UNCHANGED <<given, byteorder, mode, stream, endian, marker, band, pixtype, data, spins>>
    /\ UNCHANGED wvars

\* a loop that stops one band early
moreOffByOne(k, n) == k + 1 < n

\* for _ in range(bands): is there another iteration after i of them
more(k, n) == k < n

\* the historical variant: the 4-bit field decremented before the lookup
pixtypeDecrement(bits) == BitAnd(bits, 15) - 1

\* a lookup that falls back to the last entry of the table
pixtypeClamp(bits) == Min(BitAnd(bits, 15), 10)

\* pixtype = bits & 15
pixtypeOf(bits) == BitAnd(bits, 15)

\* One more iteration of `for _ in range(bands)`: the flag byte, the three
\* flags, pixtype, and the lookups dtypes[pixtype], sizes[pixtype], fmts[pixtype].
ReadFlags ==
    /\ pc = "loop"
    /\ more(i, nbands)
    /\ LET b == read(stream, pos, 1)
       IN  /\ pos' = pos + Len(b)
           /\ IF unpackFails("b", b)
                 THEN /\ Raise("struct.error")
                      /\ UNCHANGED <<band, pixtype>>
                 ELSE LET bits == IntOf(unpack(endian, "b", b))
                          pt == pixtypeOf(bits)
                      IN  /\ band' = [isOffline |-> BitAnd(bits, 128) # 0,
                                      hasNodataValue |-> BitAnd(bits, 64) # 0,
                                      isNodataValue |-> BitAnd(bits, 32) # 0]
                          /\ pixtype' = pt
                          /\ IF inTable(dtypes, pt)
                                THEN pc' = "nodata" /\ exc' = exc
                                ELSE Raise("IndexError")
    /\ UNCHANGED <<given, byteorder, mode, stream, endian, marker, ret, nbands, i, data, spins>>
    /\ UNCHANGED wvars

\* (nodata,) = unpack(endian + fmt, wkb.read(size)); band['nodata'] = nodata
ReadNodata ==
    /\ pc = "nodata"
    /\ LET fmt == item(fmts, pixtype)
           b == read(stream, pos, item(sizes, pixtype))
       IN  /\ pos' = pos + Len(b)
           /\ IF unpackFails(fmt, b)
                 THEN /\ Raise("struct.error")
                      /\ UNCHANGED band
                 ELSE /\ band' = band @@ ("nodata" :> unpack(endian, fmt, b))
                      /\ pc' = IF band.isOffline THEN "bandnum" ELSE "pixels"
                      /\ exc' = exc
    /\ UNCHANGED <<given, byteorder, mode, stream, endian, marker, ret, nbands, i, pixtype,
                   data, spins>>
    /\ UNCHANGED wvars

\* the wire value exposed as it is
bandNumberRaw(band_num) == band_num

\* offline bands are 0-based, make 1-based for user consumption
bandNumberOf(band_num) == band_num + 1

\* (band_num,) = unpack(endian + 'B', wkb.read(1)); band['bandNumber'] = band_num + 1;
\* data = b''
ReadBandNumber ==
    /\ pc = "bandnum"
    /\ LET b == read(stream, pos, 1)
       IN  /\ pos' = pos + Len(b)
           /\ IF unpackFails("B", b)
                 THEN /\ Raise("struct.error")
                      /\ UNCHANGED <<band, data>>
                 ELSE /\ band' = band @@ ("bandNumber" :>
                                            bandNumberOf(IntOf(unpack(endian, "B", b))))
                      /\ data' = <<>>
                      /\ pc' = "path"
                      /\ exc' = exc
    /\ UNCHANGED <<given, byteorder, mode, stream, endian, marker, ret, nbands, i, pixtype, spins>>
    /\ UNCHANGED wvars

\* One iteration of `while True`: byte = wkb.read(1); break on b'\x00', else
\* data += byte.  At the end of the stream byte is b'', which is not b'\x00':
\* data is unchanged and the loop goes round again.
ReadPathByte ==
    /\ pc = "path"
    /\ LET byte == read(stream, pos, 1)
       IN  /\ pos' = pos + Len(byte)
           /\ IF byte = <<0>>
                 THEN pc' = "decode" /\ data' = data /\ spins' = spins
                 ELSE /\ pc' = "path"
                      /\ data' = data \o byte
                      /\ IF byte = <<>>
                            THEN spins < MaxSpin /\ spins' = spins + 1
                            ELSE spins' = spins
    /\ UNCHANGED <<given, byteorder, mode, stream, exc, endian, marker, ret, nbands, i, band,
                   pixtype>>
    /\ UNCHANGED wvars

\* band['path'] = data.decode(); ret['bands'].append(band)
DecodePath ==
    /\ pc = "decode"
    /\ IF decode(data) = <<-1>>
          THEN /\ Raise("UnicodeDecodeError")
               /\ UNCHANGED <<ret, i>>
          ELSE /\ ret' = [ret EXCEPT !.bands = Append(@, band @@ ("path" :> decode(data)))]
               /\ i' = i + 1
               /\ pc' = "loop"
               /\ exc' = exc
    /\ UNCHANGED <<given, byteorder, mode, stream, pos, endian, marker, nbands, band, pixtype,
                   data, spins>>
    /\ UNCHANGED wvars

\* an array constructor that takes whatever bytes it is given
ndarrayAccepts(shape, buffer, itemsize) == FALSE

\* np.ndarray((height, width), buffer=..., dtype=...): TypeError when the
\* buffer is too small for the requested array
ndarrayFails(shape, buffer, itemsize) == Len(buffer) < shape[1] * shape[2] * itemsize

\* the array: its shape, its dtype (no byte order given: the machine's) and
\* the bytes it is a view of
ndarray(shape, buffer, dtype) == [shape |-> shape, dtype |-> dtype, buffer |-> buffer]

\* band['ndarray'] = np.ndarray((height, width),
\*     buffer=wkb.read(width * height * size), dtype=np.dtype(dtype));
\* ret['bands'].append(band)
ReadPixels ==
    /\ pc = "pixels"
    /\ LET size == item(sizes, pixtype)
           b == read(stream, pos, ret.width * ret.height * size)
           shape == <<ret.height, ret.width>>
       IN  /\ pos' = pos + Len(b)
           /\ IF ndarrayFails(shape, b, size)
                 THEN /\ Raise("TypeError")
                      /\ UNCHANGED <<ret, i>>
                 ELSE /\ ret' = [ret EXCEPT !.bands =
                                    Append(@, band @@ ("ndarray" :>
                                        ndarray(shape, b, item(dtypes, pixtype))))]
                      /\ i' = i + 1
                      /\ pc' = "loop"
                      /\ exc' = exc
    /\ UNCHANGED <<given, byteorder, mode, stream, endian, marker, nbands, band, pixtype, data,
                   spins>>
    /\ UNCHANGED wvars

\* the loop is exhausted: return ret
Return ==
    /\ pc = "loop"
    /\ ~more(i, nbands)
    /\ pc' = "done"
    /\ UNCHANGED <<given, byteorder, mode, stream, pos, exc, endian, marker, ret, nbands, i,
                   band, pixtype, data, spins>>
    /\ UNCHANGED wvars

(***************************************************************************)
(* struct.pack, for write_wkb_raster.                                      *)
(***************************************************************************)
\* the exponent of the leading bit of v, for 1 <= v < 65536
RECURSIVE log2(_)
log2(v) == IF v < 2 THEN 0 ELSE 1 + log2(v \div 2)

\* the IEEE-754 bytes (most significant first) of the integer v taken as a
\* float of n bytes, for -65536 < v < 65536
floatBytes(n, v) ==
    LET a == IF v < 0 THEN -v ELSE v
        sign == IF v < 0 THEN 128 ELSE 0
        e == log2(a)
        f16 == (a - 2 ^ e) * (2 ^ (16 - e))   \* the top 16 bits of the fraction
        x11 == 1023 + e
        x8 == 127 + e
    IN  IF a = 0 THEN [k \in 1..n |-> IF k = 1 THEN sign ELSE 0]
        ELSE IF n = 8
          THEN <<sign + x11 \div 16, (x11 % 16) * 16 + f16 \div 4096,
                 (f16 \div 16) % 256, (f16 % 16) * 16, 0, 0, 0, 0>>
          ELSE <<sign + x8 \div 2, (x8 % 2) * 128 + f16 \div 512,
                 (f16 \div 2) % 256, (f16 % 2) * 128>>

\* struct.error: the value is out of the range of the format
packFails(fmt, x) ==
    LET q == x.val[1]
    IN  CASE fmt \in {"?", "f", "d"} -> FALSE
          [] fmt = "b" -> ~(q \in {-1, 0} /\ IntOf(x) >= -128 /\ IntOf(x) <= 127)
          [] fmt = "B" -> ~(q = 0 /\ IntOf(x) <= 255)
          [] fmt = "h" -> ~(q \in {-1, 0} /\ IntOf(x) >= -32768 /\ IntOf(x) <= 32767)
          [] fmt = "H" -> q # 0
          [] fmt = "i" -> ~(q >= -32768 /\ q <= 32767)
          [] fmt = "I" -> ~(q >= 0 /\ q <= 65535)

\* the bytes of x under fmt, most significant first
bytesOf(fmt, x) ==
    LET q == x.val[1] % 65536
        r == IF x.kind = "int" THEN x.val[2] ELSE 0
    IN  CASE fmt = "?" -> <<IF x.kind = "int" /\ IntOf(x) = 0 THEN 0
                            ELSE IF x.kind = "bool" THEN x.val[1] ELSE 1>>
          [] fmt \in {"b", "B"} -> <<r % 256>>
          [] fmt \in {"h", "H"} -> <<r \div 256, r % 256>>
          [] fmt \in {"i", "I"} -> <<q \div 256, q % 256, r \div 256, r % 256>>
          [] fmt \in {"f", "d"} -> IF x.kind = "float" THEN x.val
                                   ELSE floatBytes(calcsize(fmt), IntOf(x))

\* pack(e + fmt, x) for one value; e = "=" is the machine's own order
pack(e, fmt, x) ==
    LET o == IF e = "=" THEN (IF byteorder = "little" THEN "<" ELSE ">") ELSE e
    IN  IF o = "<" THEN Reverse(bytesOf(fmt, x)) ELSE bytesOf(fmt, x)

(***************************************************************************)
(* write_wkb_raster.                                                       *)
(***************************************************************************)
\* format_string = "bHHddddddIHH"
WriteHeaderFormat == <<"b", "H", "H", "d", "d", "d", "d", "d", "d", "I", "H", "H">>

RECURSIVE packAll(_, _, _)
packAll(e, fs, xs) ==
    IF fs = <<>> THEN <<>>
    ELSE pack(e, Head(fs), Head(xs)) \o packAll(e, Tail(fs), Tail(xs))

WRaise(e) == wpc' = "raised" /\ wexc' = e

\* From `if byteorder == "big"` to `bands = []`: the byte order of the machine,
\* the fields read through rasterio, and the packed header.  skewX and
\* skewY are written as 0.
WriteHeader ==
    /\ wpc = "header"
    /\ LET e == IF byteorder = "big" THEN ">" ELSE "<"
           endian_byte == IF byteorder = "big" THEN 0 ELSE 1
           xs == <<PyInt(endian_byte), PyInt(0), PyInt(src.count),
                   src.scaleX, src.scaleY, src.ipX, src.ipY, PyInt(0), PyInt(0),
                   src.srid, PyInt(src.width), PyInt(src.height)>>
       IN  IF \E k \in 1..Len(xs) : packFails(WriteHeaderFormat[k], xs[k])
              THEN WRaise("struct.error") /\ UNCHANGED <<wheader, wbands, wi>>
              ELSE /\ wheader' = packAll(e, WriteHeaderFormat, xs)
                   /\ wbands' = <<>>
                   /\ wi' = 1
                   /\ wpc' = "bands"
                   /\ wexc' = wexc
    /\ UNCHANGED <<given, byteorder, mode, src, wkbout>>
    /\ UNCHANGED rvars

\* dtypes.index(dt_short): the first index of the dtype, -1 for ValueError
index(t, x) ==
    IF \E k \in 1..Len(t) : t[k] = x
       THEN (CHOOSE k \in 1..Len(t) : t[k] = x /\ \A j \in 1..(k - 1) : t[j] # x) - 1
       ELSE -1

\* the names the f-string of binary_str reads
FlagNames == <<"ifOffline", "hasNodataValue", "isNodataValue", "reserved", "pixtype">>

\* the names bound when binary_str is evaluated: the locals assigned before
\* it and the module's globals
BoundNames ==
    {"raster_file_path", "format_string", "endian", "endian_byte", "header", "src",
     "transform", "version", "nBands", "scaleX", "scaleY", "ipX", "ipY", "skewX",
     "skewY", "srid", "width", "height", "fmt", "bands", "i", "band_array",
     "isOffline", "hasNodataValue", "isNodataValue", "reserved", "fmts", "dtypes",
     "rasterio_dtype", "dt_short", "pixtype",
     "unpack", "pack", "np", "rio", "byteorder", "read_wkb_raster", "write_wkb_raster"}

\* the number of binary digits of f"{v:b}" for v >= 0
bitLength(v) == IF v = 0 THEN 1 ELSE log2(v) + 1

\* int(f"{o:b}{h:b}{n:b}{r:b}{pixtype:b}", 2): the digits are concatenated
\* as they come, pixtype without leading zeros
binary_decimal(o, h, n, r, pt) == (((o * 2 + h) * 2 + n) * 2 + r) * (2 ^ bitLength(pt)) + pt

\* the keys of src.meta
MetaKeys == {"driver", "dtype", "nodata", "width", "height", "count", "crs", "transform"}

\* One iteration of `for i in range(1, nBands + 1)`.
WriteBand ==
    /\ wpc = "bands"
    /\ wi <= src.count
    /\ LET isOffline == 0
           hasNodataValue == IF "nodata" \in MetaKeys THEN 1 ELSE 0
           isNodataValue == 0
           reserved == 0
           pt == index(dtypes, src.dtype)
           fmt == item(fmts, pt)
           bd == binary_decimal(isOffline, hasNodataValue, isNodataValue, reserved, pt)
           band_header == pack("<", "b", PyInt(bd))
           nodata == pack("=", fmt, PyInt(src.nodata.v))
           band_binary == src.arrays[wi]
       IN  IF pt = -1 THEN WRaise("ValueError") /\ UNCHANGED <<wbands, wi>>
           ELSE IF \E k \in 1..Len(FlagNames) : FlagNames[k] \notin BoundNames
             THEN WRaise("NameError") /\ UNCHANGED <<wbands, wi>>
           ELSE IF packFails("b", PyInt(bd))
             THEN WRaise("struct.error") /\ UNCHANGED <<wbands, wi>>
           ELSE IF src.nodata.none
             THEN WRaise("TypeError") /\ UNCHANGED <<wbands, wi>>
           ELSE IF packFails(fmt, PyInt(src.nodata.v))
             THEN WRaise("struct.error") /\ UNCHANGED <<wbands, wi>>
           ELSE /\ wbands' = Append(wbands, band_header \o nodata \o band_binary)
                /\ wi' = wi + 1
                /\ wpc' = "bands"
                /\ wexc' = wexc
    /\ UNCHANGED <<given, byteorder, mode, src, wheader, wkbout>>
    /\ UNCHANGED rvars

\* allbands is the bands joined; wkb = header + allbands; return wkb
WriteReturn ==
    /\ wpc = "bands"
    /\ wi > src.count
    /\ wkbout' = wheader \o Concat(wbands)
    /\ wpc' = "done"
    /\ UNCHANGED <<given, byteorder, mode, src, wexc, wheader, wbands, wi>>
    /\ UNCHANGED rvars

\* read_wkb_raster(io.BytesIO(write_wkb_raster(path))): the bytes returned
\* by the encoder are handed to the decoder
RoundTrip ==
    /\ mode = "roundtrip"
    /\ wpc = "done"
    /\ pc = "idle"
    /\ stream' = wkbout
    /\ pos' = 0
    /\ pc' = "endian"
    /\ UNCHANGED <<given, byteorder, mode, exc, endian, marker, ret, nbands, i, band, pixtype,
                   data, spins>>
    /\ UNCHANGED wvars

(***************************************************************************)
(* The inputs: streams laid out as the tables in the source describe the   *)
(* format, and the files write_wkb_raster is given.                        *)
(***************************************************************************)
ord(e, bs) == IF e = "<" THEN Reverse(bs) ELSE bs

H(v) == <<v \div 256, v % 256>>

\* 0.0000919, -0.0000919, 10.5 and 48.25 as float64, most significant byte first
SampleScaleX == <<63, 24, 23, 77, 250, 94, 214, 79>>
SampleScaleY == <<191, 24, 23, 77, 250, 94, 214, 79>>
SampleIpX == <<64, 37, 0, 0, 0, 0, 0, 0>>
SampleIpY == <<64, 72, 32, 0, 0, 0, 0, 0>>
SampleZero == <<0, 0, 0, 0, 0, 0, 0, 0>>

\* the 60 header bytes in byte order e: version 0, nb bands, srid 4326
WireHeader(e, nb, w, h) ==
    ord(e, H(0)) \o ord(e, H(nb)) \o ord(e, SampleScaleX) \o ord(e, SampleScaleY)
    \o ord(e, SampleIpX) \o ord(e, SampleIpY) \o ord(e, SampleZero) \o ord(e, SampleZero)
    \o ord(e, <<0, 0, 16, 230>>) \o ord(e, H(w)) \o ord(e, H(h))

orderOf(m) == IF m = 0 THEN ">" ELSE "<"

\* an inline band: the flag byte, size nodata bytes, w * h * size pixel bytes
WireInline(flag, w, h) ==
    LET size == sizes[(flag % 16) + 1]
    IN  <<flag>> \o [k \in 1..size |-> k] \o [k \in 1..(w * h * size) |-> 16 + k]

\* an offline band: the flag byte, size nodata bytes, the 0-based band number,
\* the path and its terminator
WireOffline(flag, num, path) ==
    <<flag>> \o [k \in 1..sizes[(flag % 16) + 1] |-> k] \o <<num>> \o path \o <<0>>

Prefixes(s, from) == {SubSeq(s, 1, n) : n \in from..Len(s)}

SeqsUpTo(S, lo, hi) == UNION {[1..n -> S] : n \in lo..hi}

Dims == {d \in (0..MaxSide) \X (1..MaxSide) : d[1] * d[2] <= MaxPixels}

\* hasNodataValue with 8-bit unsigned pixels; the reserved bit with 16-bit signed pixels
InlineFlags == {68, 21}

\* well-formed streams of inline bands, and every prefix of them
InlineInputs ==
    UNION {
      LET whole == <<m>> \o WireHeader(orderOf(m), Len(fs), d[1], d[2])
                   \o Concat([k \in 1..Len(fs) |-> WireInline(fs[k], d[1], d[2])])
      IN  {[family |-> "inline", whole |-> whole, stream |-> s] : s \in Prefixes(whole, 0)}
      : m \in {0, 1}, d \in Dims, fs \in SeqsUpTo(InlineFlags, 0, MaxBands)}

\* one band of one pixel under every flag byte, followed by enough bytes for
\* either kind of payload
FlagInputs ==
    {LET whole == <<m>> \o WireHeader(orderOf(m), 1, 1, 1) \o <<flag>>
                  \o <<1, 2, 3, 4, 5, 6, 7, 8, 9, 47, 97, 0, 13, 14, 15, 16>>
     IN  [family |-> "flags", whole |-> whole, stream |-> whole]
     : m \in {0, 1}, flag \in Byte}

\* the empty path; "/" and a two-byte character; a byte that is not UTF-8;
\* a 0 byte before the terminator
Paths == {<<>>, <<47, 195, 169>>, <<255>>, <<97, 0, 98>>}

\* offline bands, an inline band without hasNodataValue, and a flag byte of
\* pixel type 13
OfflineBands ==
    {WireOffline(132, 0, p) : p \in Paths} \cup {WireOffline(197, 255, <<47, 195, 169>>)}
    \cup {WireInline(4, 1, 1)} \cup {<<141>>}

\* streams with offline bands, whole or cut anywhere in the last band
OfflineInputs ==
    UNION {
      LET whole == <<m>> \o WireHeader(orderOf(m), Len(bs), 1, 1) \o Concat(bs)
      IN  {[family |-> "offline", whole |-> whole, stream |-> s]
           : s \in Prefixes(whole, Len(whole) - Len(bs[Len(bs)]))}
      : m \in {0, 1}, bs \in SeqsUpTo(OfflineBands, 1, MaxBands)}

\* first bytes that are neither 0 nor 1, before an otherwise well-formed stream
MarkerInputs ==
    {LET whole == <<m>> \o WireHeader(e, 1, 1, 1) \o WireInline(68, 1, 1)
     IN  [family |-> "marker", whole |-> whole, stream |-> whole]
     : m \in {2, 127, 128, 255}, e \in {"<", ">"}}

\* headers without bands whose srid bytes (given most significant first) have
\* the top bit set or clear, and whose version, width and height are the
\* 16-bit field u
SridInputs ==
    {LET e == orderOf(m)
         h == WireHeader(e, 0, 1, 1)
         whole == <<m>> \o ord(e, u) \o SubSeq(h, 3, 52) \o ord(e, sr)
                  \o ord(e, u) \o ord(e, u)
     IN  [family |-> "srid", whole |-> whole, stream |-> whole]
     : m \in {0, 1}, u \in {<<0, 1>>, <<255, 255>>},
       sr \in {<<255, 255, 255, 255>>, <<128, 0, 0, 1>>, <<127, 255, 255, 254>>}}

Inputs == InlineInputs \cup FlagInputs \cup OfflineInputs \cup MarkerInputs
          \cup SridInputs

float(be) == [kind |-> "float", val |-> be]

\* what rasterio reports for a file: the band count, the geotransform, the
\* EPSG code, the size, the dtype of the bands, the nodata value (none: None)
\* and the bytes of each band's array as they lie in memory
Files ==
    {[count |-> n, scaleX |-> float(SampleScaleX), scaleY |-> float(SampleScaleY),
      ipX |-> float(SampleIpX), ipY |-> float(SampleIpY),
      srid |-> PyInt(4326), width |-> d[1], height |-> d[2],
      dtype |-> dt, nodata |-> nd,
      arrays |-> [b \in 1..n |-> [k \in 1..(d[1] * d[2] * sizes[index(dtypes, dt) + 1])
                                  |-> 16 * b + k]]]
     : n \in 0..MaxBands, d \in Dims, dt \in {"b1", "u1", "i2", "f8"},
       nd \in {[none |-> TRUE, v |-> 0], [none |-> FALSE, v |-> 0],
               [none |-> FALSE, v |-> 7]}}

NoFile == [count |-> 0]

InitLocals ==
    /\ pos = 0
    /\ exc = "none"
    /\ endian = "unset"
    /\ marker = 0
    /\ ret = <<>>
    /\ nbands = 0
    /\ i = 0
    /\ band = <<>>
    /\ pixtype = 0
    /\ data = <<>>
    /\ spins = 0
    /\ wexc = "none"
    /\ wheader = <<>>
    /\ wbands = <<>>
    /\ wi = 0
    /\ wkbout = <<>>

\* read_wkb_raster is called on a stream
InitDecode ==
    /\ mode = "decode"
    /\ byteorder \in {"little", "big"}
    /\ \E g \in Inputs :
          /\ stream = g.stream
          /\ given = [family |-> g.family, whole |-> g.whole]
    /\ pc = "endian"
    /\ src = NoFile
    /\ wpc = "idle"
    /\ InitLocals

\* write_wkb_raster is called on a file, read_wkb_raster on what it returns
InitRoundTrip ==
    /\ mode = "roundtrip"
    /\ byteorder \in {"little", "big"}
    /\ src \in Files
    /\ stream = <<>>
    /\ given = [family |-> "file", whole |-> <<>>]
    /\ pc = "idle"
    /\ wpc = "header"
    /\ InitLocals

Init == InitDecode \/ InitRoundTrip

Next ==
    \/ ReadEndian
    \/ ReadHeader
    \/ ReadFlags
    \/ ReadNodata
    \/ ReadBandNumber
    \/ ReadPathByte
    \/ DecodePath
    \/ ReadPixels
    \/ Return
    \/ WriteHeader
    \/ WriteBand
    \/ WriteReturn
    \/ RoundTrip

Spec == Init /\ [][Next]_vars

(***************************************************************************)
(* What a caller sees of a decoded array: np.dtype('i2') and the like name *)
(* no byte order, so numpy reads each element in the machine's order.      *)
(***************************************************************************)
itemsize(dtype) == sizes[index(dtypes, dtype) + 1]

elements(a) ==
    LET sz == itemsize(a.dtype)
        native == IF byteorder = "little" THEN "<" ELSE ">"
    IN  [k \in 1..(a.shape[1] * a.shape[2]) |->
            unpack(native, fmts[index(dtypes, a.dtype) + 1],
                   SubSeq(a.buffer, (k - 1) * sz + 1, k * sz))]

(***************************************************************************)
(* The stream as the format lays it out, read off its bytes.               *)
(***************************************************************************)
\* the unsigned 16-bit field whose first byte is stream[k], in the order the
\* first byte of the stream announces
U16At(k) == IF stream[1] = 1 THEN stream[k] + 256 * stream[k + 1]
                             ELSE 256 * stream[k] + stream[k + 1]

DeclaredBands == U16At(4)

DeclaredWidth == U16At(58)

DeclaredHeight == U16At(60)

\* the bytes of the UTF-8 form of a text
RECURSIVE Utf8Len(_)
Utf8Len(cps) ==
    IF cps = <<>> THEN 0
    ELSE (IF Head(cps) < 128 THEN 1 ELSE IF Head(cps) < 2048 THEN 2
          ELSE IF Head(cps) < 65536 THEN 3 ELSE 4) + Utf8Len(Tail(cps))

IsInline(b) == "ndarray" \in DOMAIN b /\ DOMAIN b \cap {"bandNumber", "path"} = {}

IsOffline(b) == {"bandNumber", "path"} \subseteq DOMAIN b /\ "ndarray" \notin DOMAIN b

\* the index in the stream of the flag byte of band k, given the bands decoded
RECURSIVE FlagIndex(_)
FlagIndex(k) ==
    IF k = 1 THEN 62
    ELSE LET f == FlagIndex(k - 1)
             b == ret.bands[k - 1]
             size == sizes[(stream[f] % 16) + 1]
         IN  f + 1 + size
             + (IF stream[f] >= 128 THEN 1 + Utf8Len(b.path) + 1
                ELSE DeclaredWidth * DeclaredHeight * size)

(***************************************************************************)
(* Claims.                                                                 *)
(***************************************************************************)

\* C1: decoding what write_wkb_raster returns for a file with one band or
\* more gives back the file's raster: the encoder returns, and the decoded
\* header fields, band count, flags, nodata values and pixel bytes are the
\* file's.
C1_RoundTrip ==
    (mode = "roundtrip" /\ src.count >= 1 /\ wpc \notin {"header", "bands"}) =>
        /\ wpc = "done"
        /\ (pc = "done" =>
              /\ ret.scaleX = src.scaleX /\ ret.scaleY = src.scaleY
              /\ ret.ipX = src.ipX /\ ret.ipY = src.ipY
              /\ ret.srid = src.srid
              /\ ret.width = src.width /\ ret.height = src.height
              /\ Len(ret.bands) = src.count
              /\ \A k \in 1..src.count :
                    /\ ~ret.bands[k].isOffline
                    /\ ret.bands[k].ndarray.dtype = src.dtype
                    /\ ret.bands[k].ndarray.buffer = src.arrays[k]
                    /\ ret.bands[k].nodata
                         = valueOf(fmts[index(dtypes, src.dtype) + 1],
                                   bytesOf(fmts[index(dtypes, src.dtype) + 1],
                                           PyInt(src.nodata.v))))

\* C2: a first byte of 1 selects little-endian and 0 big-endian for the
\* fields that follow; with any other first byte the decoder resolves no
\* byte order, reads nothing beyond that byte, builds no header field and
\* ends in an exception.
C2_StrictEndianness ==
    (mode = "decode" /\ pc # "endian" /\ Len(stream) >= 1) =>
        /\ (stream[1] = 1 => endian = "<")
        /\ (stream[1] = 0 => endian = ">")
        /\ (stream[1] \in {0, 1} /\ DOMAIN ret # {} =>
              /\ nbands = DeclaredBands
              /\ ret.width = DeclaredWidth
              /\ ret.height = DeclaredHeight)
        /\ (stream[1] \notin {0, 1} =>
              /\ endian \notin {"<", ">"}
              /\ pc \in {"header", "raised"}
              /\ pos = 1
              /\ DOMAIN ret = {}
              /\ (pc = "raised" => exc = "TypeError"))

C2_Witness ==
    /\ mode = "decode" /\ Len(stream) > 61 /\ stream[1] = 255
    /\ pc = "raised" /\ exc = "TypeError" /\ pos = 1

\* C3: after a flag byte fb (0..255) has been read, isOffline is bit 7 of fb,
\* hasNodataValue bit 6, isNodataValue bit 5, and pixtype is fb mod 16, not
\* decremented; bit 4 has no part in any of them.
C3_FlagDecode ==
    (pc = "nodata" \/ (pc = "raised" /\ exc = "IndexError")) =>
        LET fb == stream[pos]
        IN  /\ band.isOffline = (fb >= 128)
            /\ band.hasNodataValue = ((fb \div 64) % 2 = 1)
            /\ band.isNodataValue = ((fb \div 32) % 2 = 1)
            /\ pixtype = fb % 16

C3_Witness ==
    /\ pc = "nodata" /\ stream[pos] = 215
    /\ band.isOffline /\ band.hasNodataValue /\ ~band.isNodataValue /\ pixtype = 7

\* C4: for a file with one band or more the encoder returns, and the flag
\* byte of the first band is isOffline*128 + hasNodataValue*64 +
\* isNodataValue*32 + pixelType with the reserved bit 0: here 64 + the pixel
\* type of the file's dtype.
C4_FlagByteWritten ==
    (mode = "roundtrip" /\ src.count >= 1 /\ wpc \notin {"header", "bands"}) =>
        /\ wpc = "done"
        /\ Len(wkbout) >= 62
        /\ wkbout[62] = 64 + index(dtypes, src.dtype)

\* C5: a step of the band loop that reads a flag byte whose low four bits
\* are 11..15 ends the decode with IndexError, having read that byte and
\* nothing after it and having added no band; a decode that has raised
\* stays so.
C5_OutOfRangePixelType ==
    [][/\ (pc = "loop" /\ i < nbands /\ pos < Len(stream) /\ stream[pos + 1] % 16 > 10) =>
            (pc' = "raised" /\ exc' = "IndexError" /\ pos' = pos + 1 /\ ret' = ret)
       /\ (pc = "raised" => pc' = "raised")]_vars

C5_Witness ==
    /\ pc = "raised" /\ exc = "IndexError" /\ i = 1 /\ stream[pos] % 16 = 13
    /\ Len(ret.bands) = 1

\* C6: when an offline band has been decoded, its flag byte has bit 7 set,
\* the byte after its nodata value plus one is its bandNumber, the bytes
\* from there up to the first 0 byte, that byte excluded and consumed, are
\* its path, and the band has no pixel buffer.
C6_OfflineDecode ==
    (pc = "loop" /\ i > 0 /\ ret.bands[i].isOffline) =>
        LET b == ret.bands[i]
            L == Utf8Len(b.path)
            bytes == SubSeq(stream, pos - L, pos - 1)
            fi == pos - L - 1 - sizes[pixtype + 1] - 1
        IN  /\ stream[fi] >= 128 /\ stream[fi] % 16 = pixtype
            /\ (i = 1 => fi = 62)
            /\ b.bandNumber = stream[pos - L - 1] + 1
            /\ stream[pos] = 0
            /\ \A k \in 1..L : bytes[k] # 0
            /\ b.path = utf8(bytes)
            /\ IsOffline(b)

C6_Witness ==
    /\ pc = "loop" /\ i = 2 /\ ret.bands[2].isOffline
    /\ ret.bands[2].bandNumber = 256 /\ ret.bands[2].path = <<47, 233>>
    /\ ret.bands[1].isOffline /\ ret.bands[1].bandNumber = 1 /\ ret.bands[1].path = <<>>

\* C7: once a read of the path loop has met the end of the stream, the
\* decode has failed: the loop is not entered again.
C7_UnterminatedPathFails == spins >= 1 => pc = "raised"

\* C8: on a strict prefix of a well-formed stream of inline bands the
\* decoder never returns and is never in the offline branch: it is still
\* reading or has raised.  Whatever the stream, a returned raster has as
\* many bands as the header declares, and every pixel buffer it holds has
\* height * width * itemsize bytes.
C8_TruncationFails ==
    /\ (given.family = "inline" /\ Len(stream) < Len(given.whole)) =>
          pc \in {"endian", "header", "loop", "nodata", "pixels", "raised"}
    /\ (mode = "decode" /\ pc = "done") => Len(ret.bands) = DeclaredBands
    /\ (mode = "decode" /\ DOMAIN ret # {}) =>
          \A k \in 1..Len(ret.bands) :
             "ndarray" \in DOMAIN ret.bands[k] =>
                LET a == ret.bands[k].ndarray
                IN  /\ a.shape = <<DeclaredHeight, DeclaredWidth>>
                    /\ Len(a.buffer) = DeclaredHeight * DeclaredWidth * itemsize(a.dtype)

C8_Witness ==
    /\ given.family = "inline" /\ Len(stream) = Len(given.whole) - 1
    /\ DeclaredBands = 2 /\ i = 1
    /\ pc = "raised" /\ exc = "TypeError"

\* C9: when the decoder returns on a stream declaring n bands, the loop ran
\* n times, the result has n bands in stream order, each inline or offline
\* as its flag byte says and never both, and the position is 61 plus, per
\* band, 1 + the nodata size + the payload (width * height * size inline,
\* 1 + len(path) + 1 offline).
C9_ExactConsumption ==
    (mode = "decode" /\ pc = "done") =>
        /\ i = DeclaredBands
        /\ Len(ret.bands) = DeclaredBands
        /\ pos = FlagIndex(DeclaredBands + 1) - 1
        /\ \A k \in 1..Len(ret.bands) :
              LET fb == stream[FlagIndex(k)]
                  b == ret.bands[k]
              IN  /\ b.isOffline = (fb >= 128)
                  /\ b.hasNodataValue = ((fb \div 64) % 2 = 1)
                  /\ "nodata" \in DOMAIN b
                  /\ IF fb >= 128 THEN IsOffline(b) ELSE IsInline(b)
                  /\ (fb < 128 => b.ndarray.dtype = dtypes[(fb % 16) + 1])

C9_Witness ==
    /\ mode = "decode" /\ pc = "done" /\ Len(ret.bands) = 2
    /\ IsInline(ret.bands[1]) /\ ~ret.bands[1].hasNodataValue
    /\ IsOffline(ret.bands[2]) /\ ret.bands[2].path = <<47, 233>>

\* C10: the pixels of a returned inline band, as the array gives them, are
\* the values of their bytes in the byte order the stream's first byte
\* announced, whatever the machine's byte order.
C10_PixelByteOrder ==
    (mode = "decode" /\ pc = "done") =>
        \A k \in 1..Len(ret.bands) :
           "ndarray" \in DOMAIN ret.bands[k] =>
              LET a == ret.bands[k].ndarray
                  sz == itemsize(a.dtype)
              IN  \A j \in 1..(a.shape[1] * a.shape[2]) :
                     elements(a)[j] = unpack(endian, fmts[index(dtypes, a.dtype) + 1],
                                             SubSeq(a.buffer, (j - 1) * sz + 1, j * sz))

\* the 32-bit field whose first byte is stream[k], in the order the first
\* byte of the stream announces, read as a signed (two's complement) value
S32At(k) ==
    LET be == IF stream[1] = 1 THEN <<stream[k + 3], stream[k + 2], stream[k + 1], stream[k]>>
                               ELSE <<stream[k], stream[k + 1], stream[k + 2], stream[k + 3]>>
        hi == be[1] * 256 + be[2]
    IN  <<IF hi >= 32768 THEN hi - 65536 ELSE hi, be[3] * 256 + be[4]>>

\* C11: once the header is decoded, srid is the signed 32-bit value of the
\* bytes at header offset 52..55 in the resolved byte order, so it lies in
\* -2^31 .. 2^31 - 1 and FF FF FF FF is -1; version, the band count, width
\* and height are the unsigned 16-bit values of their bytes, in 0..65535.
C11_SridSigned ==
    (mode = "decode" /\ DOMAIN ret # {}) =>
        /\ ret.srid.kind = "int"
        /\ ret.srid.val = S32At(54)
        /\ ret.srid.val[1] >= -32768 /\ ret.srid.val[1] <= 32767
        /\ (SubSeq(stream, 54, 57) = <<255, 255, 255, 255>> => IntOf(ret.srid) = -1)
        /\ ret.version = U16At(2) /\ ret.version \in 0..65535
        /\ nbands = U16At(4) /\ nbands \in 0..65535
        /\ ret.width = U16At(58) /\ ret.width \in 0..65535
        /\ ret.height = U16At(60) /\ ret.height \in 0..65535

=============================================================================
